---- MODULE Spec2Model ----
(***************************************************************************)
(* A model of swingplayback: the ring buffer of recent camera frames, the  *)
(* per-camera capture loop with its stop and save signals, the looping     *)
(* clip playback and its display window (video.go), and the loudness       *)
(* detector with its re-trigger gate and the delayed save (audio           *)
(* detection in the latest revision of the audio source).                  *)
(*                                                                         *)
(* Goroutines are processes with a program counter; a send on an           *)
(* unbuffered channel is a process waiting at its send statement, and the  *)
(* receive is the step that releases it.  The statements of a goroutine    *)
(* between two blocking points are one step.  The clock is counted in      *)
(* detector ticks (100 ms) and advances only between steps.                *)
(***************************************************************************)
EXTENDS Integers, Sequences, FiniteSets, TLC

\* ---------------------------------------------------------------- bounds
\* Capacity of a VideoFrameBuffer (int(DefaultFPS) * secondsToRecord, scaled).
Capacity == 2
\* Frames a camera delivers in a run.
MaxAppends == 3
\* VideoProfile.Save calls per stream in a run.
MaxSavers == 3
\* The clock stops advancing here.
MaxTime == 5
\* minDetectionInterval, in ticks.
MinDetectionInterval == 2
\* durationToCaptureAfterEvent, in ticks.
PostEventDuration == 2
\* Calls of start() that main's loop makes in a behaviour.
MaxInstances == 2

\* ------------------------------------------------------------- constants
\* DefaultClubStrikeDecibelThreshold
Threshold == 90

\* The zero time.Time of `var lastDetection time.Time`: before every clock
\* reading by more than any interval.
ZeroTime == -1000

Streams == {"front", "back"}
SaverIds == 1..MaxSavers
PlaybackIds == 1..MaxSavers
Instances == 1..MaxInstances

VARIABLES
    buf,            \* per stream: VideoFrameBuffer [frames, idx]
    appended,       \* per stream: number of Append calls so far (frame ids)
    released,       \* per stream: frames whose Mat has been Close()d
    cpc,            \* per stream: where VideoProfile.Start is
    playback,       \* per stream: Start's local `playback` (0 = nil)
    pb,             \* per stream, per VideoPlayback: its Start goroutine
    sv,             \* per stream, per VideoProfile.Save call: its goroutine
    stpc,           \* per stream: a caller of VideoProfile.Stop
    shown,          \* per stream: the frame last shown in the window
    lastSave,       \* per stream: what the last frameBuffer.Save did
    lastSel,        \* per stream: what the last select of Start saw and took
    afterStop,      \* per stream: frames delivered since playback.Stop() began
    stopRet,        \* per stream: playbacks whose Stop() has returned
    now,            \* the clock, in ticks
    tickReady,      \* a tick waits in the ticker's channel
    dpc,            \* where Audio.StartDetection's tick loop is
    lastDetection,  \* StartDetection's local lastDetection
    pending,        \* the Detection being sent on a.detection
    emitted,        \* the Detections the detector decided to send
    received,       \* the Detections the consumer received
    ticks,          \* the last three handled ticks
    inst,           \* the call of start() that main's loop is in
    spc,            \* where that call of start() is
    apc,            \* per call of start(): its audio.StartDetection goroutine
    cam             \* per call of start(), per stream: its camera device

streamVars == <<buf, appended, released, cpc, playback, pb, sv, stpc, shown,
                lastSave, lastSel, afterStop, stopRet>>
detectVars == <<now, tickReady, dpc, lastDetection, pending, emitted,
                received, ticks>>
startVars == <<inst, spc, apc, cam>>
vars == <<buf, appended, released, cpc, playback, pb, sv, stpc, shown,
          lastSave, lastSel, afterStop, stopRet, now, tickReady, dpc,
          lastDetection, pending, emitted, received, ticks, inst, spc, apc,
          cam>>

\* ----------------------------------------------------------- ring buffer
\* A zero-valued gocv.Mat in a slot that was never written.
NoFrame == 0

NewVideoFrameBuffer(maxFrames) ==
    [frames |-> [i \in 1..maxFrames |-> NoFrame], idx |-> 0]

FrameBufferAppend_overwriteFirst(b, frame) ==
    IF b.idx < Len(b.frames)
    THEN [b EXCEPT !.frames[b.idx + 1] = frame, !.idx = b.idx + 1]
    ELSE [b EXCEPT !.frames[1] = frame]

\* VideoFrameBuffer.Append: the next free slot, or drop slot 0 and append.
FrameBufferAppend(b, frame) ==
    IF b.idx < Len(b.frames)
    THEN [b EXCEPT !.frames[b.idx + 1] = frame, !.idx = b.idx + 1]
    ELSE [b EXCEPT !.frames = Tail(b.frames) \o <<frame>>]

Evicted_newest(b) ==
    IF b.idx < Len(b.frames) THEN {} ELSE {b.frames[Len(b.frames)]}

\* The Mat that Append closes: v.frames[0] when the buffer is full.
Evicted(b) == IF b.idx < Len(b.frames) THEN {} ELSE {b.frames[1]}

Full_nonEmpty(b) == b.idx >= 1

\* VideoFrameBuffer.Full
Full(b) == b.idx = Len(b.frames)

\* What the clip writer does in a Save: 0 every call succeeds, -1
\* VideoWriterFile fails, k the Write of the k-th frame fails.
WriterFaults == {-1, 0} \cup (1..Capacity)

Save_ignoresWriteError(b, fault) ==
    IF ~Full(b)
    THEN [result |-> "notfull", opened |-> FALSE, written |-> <<>>]
    ELSE IF fault = -1
    THEN [result |-> "createfail", opened |-> FALSE, written |-> <<>>]
    ELSE IF fault \in 1..Len(b.frames)
    THEN [result |-> "ok", opened |-> TRUE,
          written |-> SubSeq(b.frames, 1, fault - 1)]
    ELSE [result |-> "ok", opened |-> TRUE, written |-> b.frames]

\* VideoFrameBuffer.Save: [result, opened, written].
Save(b, fault) ==
    IF ~Full(b)
    THEN [result |-> "notfull", opened |-> FALSE, written |-> <<>>]
    ELSE IF fault = -1
    THEN [result |-> "createfail", opened |-> FALSE, written |-> <<>>]
    ELSE IF fault \in 1..Len(b.frames)
    THEN [result |-> "writefail", opened |-> TRUE,
          written |-> SubSeq(b.frames, 1, fault - 1)]
    ELSE [result |-> "ok", opened |-> TRUE, written |-> b.frames]

\* ------------------------------------------------------------ processes
NoPlayback == [pc |-> "none", clip |-> <<>>, pos |-> 0, last |-> 0,
               exit |-> "none"]

\* A VideoPlayback.Start that has returned: its locals are gone.
Returned(why) == [NoPlayback EXCEPT !.pc = "done", !.exit = why]

\* NewVideoPlayback, and `go playback.Start`: about to open the file.
NewVideoPlayback(file) == [NoPlayback EXCEPT !.pc = "open", !.clip = file]

IdleSaver == [pc |-> "idle", det |-> 0, invoked |-> 0, delay |-> 0,
              offered |-> 0]

\* The Detection struct; this value stands for none being sent.
NoDetection == [Decibel |-> 0, DetectionTime |-> ZeroTime]

NoSelect == [stop |-> FALSE, save |-> FALSE, took |-> "none", served |-> 0]
NoSave == [result |-> "none", opened |-> FALSE, written |-> <<>>,
           at |-> 0, fault |-> 0, started |-> 0]

Running(s, p) == pb[s][p].pc \in {"open", "read", "check", "send", "sleep"}
Created(s) == Cardinality({p \in PlaybackIds : pb[s][p].pc # "none"})

\* Save signals the capture loop has received.
Served(s) == Cardinality({i \in SaverIds : sv[s][i].pc = "done"})

\* A sender waits on v.stop / v.save of the stream.
StopPending(s) == stpc[s] = "send"
SavePending(s) == \E i \in SaverIds : sv[s][i].pc = "send"

Init ==
    /\ buf = [s \in Streams |-> NewVideoFrameBuffer(Capacity)]
    /\ appended = [s \in Streams |-> 0]
    /\ released = [s \in Streams |-> {}]
    /\ cpc = [s \in Streams |-> "select"]
    /\ playback = [s \in Streams |-> 0]
    /\ pb = [s \in Streams |-> [p \in PlaybackIds |-> NoPlayback]]
    /\ sv = [s \in Streams |-> [i \in SaverIds |-> IdleSaver]]
    /\ stpc = [s \in Streams |-> "idle"]
    /\ shown = [s \in Streams |-> NoFrame]
    /\ lastSave = [s \in Streams |-> NoSave]
    /\ lastSel = [s \in Streams |-> NoSelect]
    /\ afterStop = [s \in Streams |-> 0]
    /\ stopRet = [s \in Streams |-> {}]
    /\ now = 0
    /\ tickReady = FALSE
    /\ dpc = "wait"
    /\ lastDetection = ZeroTime
    /\ pending = NoDetection
    /\ emitted = <<>>
    /\ received = <<>>
    /\ ticks = <<>>
    /\ inst = 1
    /\ spc = "NewAudio"
    /\ apc = [i \in Instances |-> "none"]
    /\ cam = [i \in Instances |-> [s \in Streams |-> "unopened"]]

\* ---------------------------------------------------------- capture loop
\* What the select of VideoProfile.Start sees.
Seen(s, took) == [stop |-> StopPending(s), save |-> SavePending(s),
                  took |-> took, served |-> Served(s)]

DefaultCase_always(s) == TRUE

\* The default case of the select runs only when no case can proceed.
DefaultCase(s) == ~StopPending(s) /\ ~SavePending(s)

CapTakeStop_continue(s) ==
    /\ cpc[s] = "select"
    /\ StopPending(s)
    /\ stpc' = [stpc EXCEPT ![s] = "returned"]
    /\ lastSel' = [lastSel EXCEPT ![s] = Seen(s, "stop")]
    /\ UNCHANGED <<buf, appended, released, cpc, playback, pb, sv, shown,
                   lastSave, afterStop, stopRet>>
    /\ UNCHANGED detectVars
    /\ UNCHANGED startVars

\* case <-v.stop
CapTakeStop(s) ==
    /\ cpc[s] = "select"
    /\ StopPending(s)
    /\ cpc' = [cpc EXCEPT ![s] = "stopped"]
    /\ stpc' = [stpc EXCEPT ![s] = "returned"]
    /\ lastSel' = [lastSel EXCEPT ![s] = Seen(s, "stop")]
    /\ UNCHANGED <<buf, appended, released, playback, pb, sv, shown,
                   lastSave, afterStop, stopRet>>
    /\ UNCHANGED detectVars
    /\ UNCHANGED startVars

MustStopPrevious_never(s) == FALSE

\* if playback != nil
MustStopPrevious(s) == playback[s] # 0

\* case <-v.save, up to playback.Stop(): the sender returns; with a previous
\* playback the loop now waits at the send inside VideoPlayback.Stop.
CapTakeSave(s, i) ==
    /\ cpc[s] = "select"
    /\ sv[s][i].pc = "send"
    /\ sv' = [sv EXCEPT ![s][i].pc = "done"]
    /\ lastSel' = [lastSel EXCEPT ![s] = Seen(s, "save")]
    /\ cpc' = [cpc EXCEPT ![s] = IF MustStopPrevious(s) THEN "stopping"
                                  ELSE "save"]
    /\ afterStop' = [afterStop EXCEPT ![s] = 0]
    /\ UNCHANGED <<buf, appended, released, playback, pb, stpc, shown,
                   lastSave, stopRet>>
    /\ UNCHANGED detectVars
    /\ UNCHANGED startVars

CapSave_drains(s, fault) ==
    /\ cpc[s] = "save"
    /\ LET r == Save(buf[s], fault)
           q == Created(s) + 1
       IN /\ IF r.result = "ok"
             THEN /\ pb' = [pb EXCEPT ![s][q] = NewVideoPlayback(r.written)]
                  /\ playback' = [playback EXCEPT ![s] = q]
             ELSE UNCHANGED <<pb, playback>>
          /\ buf' = [buf EXCEPT ![s] =
                        IF r.opened THEN NewVideoFrameBuffer(Capacity)
                        ELSE @]
          /\ lastSave' = [lastSave EXCEPT ![s] =
                 [result |-> r.result, opened |-> r.opened,
                  written |-> r.written, at |-> appended[s],
                  fault |-> fault,
                  started |-> IF r.result = "ok" THEN q ELSE 0]]
    /\ cpc' = [cpc EXCEPT ![s] = "select"]
    /\ UNCHANGED <<appended, released, sv, stpc, shown, lastSel,
                   afterStop, stopRet>>
    /\ UNCHANGED detectVars
    /\ UNCHANGED startVars

\* The rest of the save case: frameBuffer.Save, and on success
\* NewVideoPlayback and `go playback.Start`; on an error, continue.
CapSave(s, fault) ==
    /\ cpc[s] = "save"
    /\ LET r == Save(buf[s], fault)
           q == Created(s) + 1
       IN /\ IF r.result = "ok"
             THEN /\ pb' = [pb EXCEPT ![s][q] = NewVideoPlayback(r.written)]
                  /\ playback' = [playback EXCEPT ![s] = q]
             ELSE UNCHANGED <<pb, playback>>
          /\ lastSave' = [lastSave EXCEPT ![s] =
                 [result |-> r.result, opened |-> r.opened,
                  written |-> r.written, at |-> appended[s],
                  fault |-> fault,
                  started |-> IF r.result = "ok" THEN q ELSE 0]]
    /\ cpc' = [cpc EXCEPT ![s] = "select"]
    /\ UNCHANGED <<buf, appended, released, sv, stpc, shown, lastSel,
                   afterStop, stopRet>>
    /\ UNCHANGED detectVars
    /\ UNCHANGED startVars

CapPullFrame_whileSaving(s, ok) ==
    /\ cpc[s] \in {"select", "save"}
    /\ DefaultCase(s)
    /\ lastSel' = [lastSel EXCEPT ![s] = Seen(s, "frame")]
    /\ IF ok
       THEN /\ appended[s] < MaxAppends
            /\ appended' = [appended EXCEPT ![s] = @ + 1]
            /\ released' = [released EXCEPT ![s] = @ \cup Evicted(buf[s])]
            /\ buf' = [buf EXCEPT ![s] = FrameBufferAppend(@, appended[s] + 1)]
       ELSE UNCHANGED <<buf, appended, released>>
    /\ UNCHANGED <<cpc, playback, pb, sv, stpc, shown, lastSave, afterStop,
                   stopRet>>
    /\ UNCHANGED detectVars
    /\ UNCHANGED startVars

CapPullFrame_whileStopping(s, ok) ==
    /\ cpc[s] \in {"select", "stopping"}
    /\ DefaultCase(s)
    /\ lastSel' = [lastSel EXCEPT ![s] = Seen(s, "frame")]
    /\ IF ok
       THEN /\ appended[s] < MaxAppends
            /\ appended' = [appended EXCEPT ![s] = @ + 1]
            /\ released' = [released EXCEPT ![s] = @ \cup Evicted(buf[s])]
            /\ buf' = [buf EXCEPT ![s] = FrameBufferAppend(@, appended[s] + 1)]
       ELSE UNCHANGED <<buf, appended, released>>
    /\ UNCHANGED <<cpc, playback, pb, sv, stpc, shown, lastSave, afterStop,
                   stopRet>>
    /\ UNCHANGED detectVars
    /\ UNCHANGED startVars

\* default: v.cam.Read; without a frame, continue; else clone, rotate, Append.
CapPullFrame(s, ok) ==
    /\ cpc[s] = "select"
    /\ DefaultCase(s)
    /\ lastSel' = [lastSel EXCEPT ![s] = Seen(s, "frame")]
    /\ IF ok
       THEN /\ appended[s] < MaxAppends
            /\ appended' = [appended EXCEPT ![s] = @ + 1]
            /\ released' = [released EXCEPT ![s] = @ \cup Evicted(buf[s])]
            /\ buf' = [buf EXCEPT ![s] = FrameBufferAppend(@, appended[s] + 1)]
       ELSE UNCHANGED <<buf, appended, released>>
    /\ UNCHANGED <<cpc, playback, pb, sv, stpc, shown, lastSave, afterStop,
                   stopRet>>
    /\ UNCHANGED detectVars
    /\ UNCHANGED startVars

\* VideoProfile.Stop: the caller waits at v.stop <- struct{}{}.
StopCall(s) ==
    /\ stpc[s] = "idle"
    /\ stpc' = [stpc EXCEPT ![s] = "send"]
    /\ UNCHANGED <<buf, appended, released, cpc, playback, pb, sv, shown,
                   lastSave, lastSel, afterStop, stopRet>>
    /\ UNCHANGED detectVars
    /\ UNCHANGED startVars

\* A VideoProfile.Save call, its sleep over, waits at v.save <- struct{}{}.
SaveSignal(s, i) ==
    /\ sv[s][i].pc = "idle"
    /\ \A j \in SaverIds : j < i => sv[s][j].pc # "idle"
    /\ sv' = [sv EXCEPT ![s][i].pc = "send"]
    /\ UNCHANGED <<buf, appended, released, cpc, playback, pb, stpc, shown,
                   lastSave, lastSel, afterStop, stopRet>>
    /\ UNCHANGED detectVars
    /\ UNCHANGED startVars

\* ------------------------------------------------------------- playback
\* playback.Stop() of the capture loop waits at v.stop <- struct{}{} of p.
StopOffered(s, p) == cpc[s] = "stopping" /\ playback[s] = p

\* gocv.VideoCaptureFile at the top of the outer loop; on an error, return.
PbOpen(s, p, ok) ==
    /\ pb[s][p].pc = "open"
    /\ pb' = [pb EXCEPT ![s][p] =
                 IF ok THEN [@ EXCEPT !.pc = "read", !.pos = 0]
                 ELSE Returned("openfail")]
    /\ UNCHANGED <<buf, appended, released, cpc, playback, sv, stpc, shown,
                   lastSave, lastSel, afterStop, stopRet>>
    /\ UNCHANGED detectVars
    /\ UNCHANGED startVars

EndOfClip_return(r) == Returned("eof")

\* video.Read fails at the end of the file: break, video.Close(), reopen.
EndOfClip(r) == [r EXCEPT !.pc = "open"]

\* video.Read, and the f.Empty() test: an empty frame is read over.
PbRead(s, p, empty) ==
    /\ pb[s][p].pc = "read"
    /\ pb' = [pb EXCEPT ![s][p] =
                 IF @.pos = Len(@.clip) THEN EndOfClip(@)
                 ELSE [@ EXCEPT !.pos = @ + 1,
                                !.pc = IF empty THEN "read" ELSE "check"]]
    /\ UNCHANGED <<buf, appended, released, cpc, playback, sv, stpc, shown,
                   lastSave, lastSel, afterStop, stopRet>>
    /\ UNCHANGED detectVars
    /\ UNCHANGED startVars

SeesStop_oncePerPass(s, p) ==
    StopOffered(s, p) /\ pb[s][p].pos = Len(pb[s][p].clip)

\* The select before each hand-off: case <-v.stop can proceed.
SeesStop(s, p) == StopOffered(s, p)

\* case <-v.stop: return; the capture loop's playback.Stop() returns.
PbStopped(s, p) ==
    /\ pb[s][p].pc = "check"
    /\ SeesStop(s, p)
    /\ pb' = [pb EXCEPT ![s][p] = Returned("stopped")]
    /\ cpc' = [cpc EXCEPT ![s] = "save"]
    /\ stopRet' = [stopRet EXCEPT ![s] = @ \cup {p}]
    /\ UNCHANGED <<buf, appended, released, playback, sv, stpc, shown,
                   lastSave, lastSel, afterStop>>
    /\ UNCHANGED detectVars
    /\ UNCHANGED startVars

PbOffer_buffered(s, p) ==
    /\ pb[s][p].pc = "check"
    /\ ~SeesStop(s, p)
    /\ pb' = [pb EXCEPT ![s][p].pc = "sleep"]
    /\ UNCHANGED <<buf, appended, released, cpc, playback, sv, stpc, shown,
                   lastSave, lastSel, afterStop, stopRet>>
    /\ UNCHANGED detectVars
    /\ UNCHANGED startVars

\* default: go on to window.Input() <- f and wait there.
PbOffer(s, p) ==
    /\ pb[s][p].pc = "check"
    /\ ~SeesStop(s, p)
    /\ pb' = [pb EXCEPT ![s][p].pc = "send"]
    /\ UNCHANGED <<buf, appended, released, cpc, playback, sv, stpc, shown,
                   lastSave, lastSel, afterStop, stopRet>>
    /\ UNCHANGED detectVars
    /\ UNCHANGED startVars

\* time.Sleep(frameDelay) is over.
PbWake(s, p) ==
    /\ pb[s][p].pc = "sleep"
    /\ pb' = [pb EXCEPT ![s][p].pc = "read"]
    /\ UNCHANGED <<buf, appended, released, cpc, playback, sv, stpc, shown,
                   lastSave, lastSel, afterStop, stopRet>>
    /\ UNCHANGED detectVars
    /\ UNCHANGED startVars

\* VideoPlaybackWindow.PlayNextFrame: a frame offered on v.frames is taken
\* and shown; with none offered the poll does nothing.
PlayNextFrame(s) ==
    IF \E p \in PlaybackIds : pb[s][p].pc = "send"
    THEN \E p \in PlaybackIds :
            /\ pb[s][p].pc = "send"
            /\ shown' = [shown EXCEPT ![s] = pb[s][p].clip[pb[s][p].pos]]
            /\ pb' = [pb EXCEPT ![s][p].pc = "sleep",
                                ![s][p].last = pb[s][p].pos]
            /\ afterStop' = [afterStop EXCEPT ![s] =
                                IF StopOffered(s, p) THEN @ + 1 ELSE @]
            /\ UNCHANGED <<buf, appended, released, cpc, playback, sv, stpc,
                           lastSave, lastSel, stopRet>>
            /\ UNCHANGED detectVars
            /\ UNCHANGED startVars
    ELSE UNCHANGED vars

\* --------------------------------------------------------- specification
OneStream == {"front"}

Next ==
    \/ \E s \in OneStream : CapTakeStop(s)
    \/ \E s \in OneStream : \E i \in SaverIds : CapTakeSave(s, i)
    \/ \E s \in OneStream : \E fault \in WriterFaults : CapSave(s, fault)
    \/ \E s \in OneStream : \E ok \in BOOLEAN : CapPullFrame(s, ok)
    \/ \E s \in OneStream : StopCall(s)
    \/ \E s \in OneStream : \E i \in SaverIds : SaveSignal(s, i)
    \/ \E s \in OneStream : \E p \in PlaybackIds : \E ok \in BOOLEAN :
          PbOpen(s, p, ok)
    \/ \E s \in OneStream : \E p \in PlaybackIds : \E empty \in BOOLEAN :
          PbRead(s, p, empty)
    \/ \E s \in OneStream : \E p \in PlaybackIds : PbStopped(s, p)
    \/ \E s \in OneStream : \E p \in PlaybackIds : PbOffer(s, p)
    \/ \E s \in OneStream : \E p \in PlaybackIds : PbWake(s, p)
    \/ \E s \in OneStream : PlayNextFrame(s)

Spec == Init /\ [][Next]_vars

\* -------------------------------------------------------------- detector
\* What calculateDecibels returns for the current bite: a number (here the
\* threshold itself or one above it), or -Inf for silence (rms == 0).
Readings ==
    [kind : {"num"}, db : {Threshold, Threshold + 1}]
        \cup {[kind |-> "neginf", db |-> 0]}

ExceedsThreshold_orEqual(r) == r.kind = "num" /\ r.db >= Threshold

\* decibels > a.decibleThreshold
ExceedsThreshold(r) == r.kind = "num" /\ r.db > Threshold

RetriggerAllowed_always(t, last) == TRUE

\* time.Now().Add(-minDetectionInterval).After(lastDetection)
RetriggerAllowed(t, last) == t - MinDetectionInterval > last

LastThree(q) == IF Len(q) > 3 THEN SubSeq(q, Len(q) - 2, Len(q)) ELSE q

\* A detector tick interval passes: the ticker puts a tick in its channel,
\* which holds one.
AdvanceClock ==
    /\ now < MaxTime
    /\ now' = now + 1
    /\ tickReady' = TRUE
    /\ UNCHANGED <<dpc, lastDetection, pending, emitted, received, ticks>>
    /\ UNCHANGED streamVars
    /\ UNCHANGED startVars

\* One pass of `for range detectTicker`, up to the send on a.detection.
DetTick(r) ==
    /\ dpc = "wait"
    /\ tickReady
    /\ tickReady' = FALSE
    /\ LET emit == ExceedsThreshold(r) /\ RetriggerAllowed(now, lastDetection)
           d == [Decibel |-> r.db, DetectionTime |-> now]
       IN /\ emit => Len(emitted) < MaxSavers
          /\ ticks' = LastThree(ticks \o
                 <<[t |-> now, level |-> r, emit |-> emit,
                    gate |-> now - MinDetectionInterval > lastDetection,
                    prior |-> Len(emitted)]>>)
          /\ IF emit
             THEN /\ lastDetection' = now
                  /\ pending' = d
                  /\ emitted' = emitted \o <<d>>
                  /\ dpc' = "send"
             ELSE UNCHANGED <<lastDetection, pending, emitted, dpc>>
    /\ UNCHANGED <<now, received>>
    /\ UNCHANGED streamVars
    /\ UNCHANGED startVars

Handoff_dropped ==
    /\ dpc = "send"
    /\ dpc' = "wait"
    /\ pending' = NoDetection
    /\ UNCHANGED <<now, tickReady, lastDetection, emitted, received, ticks>>
    /\ UNCHANGED streamVars
    /\ UNCHANGED startVars

\* The consumer's `for detection := range audio.DetectAboveThreshold()`
\* receives, and its `go video.Save(detection)` starts VideoProfiles.Save,
\* which starts a VideoProfile.Save goroutine for each stream.
Handoff ==
    /\ dpc = "send"
    /\ Len(received) < MaxSavers
    /\ dpc' = "wait"
    /\ received' = received \o <<pending>>
    /\ pending' = NoDetection
    /\ sv' = [s \in Streams |->
                [sv[s] EXCEPT ![Len(received) + 1] =
                    [IdleSaver EXCEPT !.pc = "spawned",
                                      !.det = pending.DetectionTime]]]
    /\ UNCHANGED <<now, tickReady, lastDetection, emitted, ticks>>
    /\ UNCHANGED <<buf, appended, released, cpc, playback, pb, stpc, shown,
                   lastSave, lastSel, afterStop, stopRet>>
    /\ UNCHANGED startVars

SaveDelay_reversed(post, elapsed) == elapsed - post

\* delay := v.durationToCaptureAfterEvent - elapsed
SaveDelay(post, elapsed) == post - elapsed

SaverStart_sequential(s, k) ==
    /\ sv[s][k].pc = "spawned"
    /\ s = "back" => sv["front"][k].pc = "done"
    /\ LET delay == SaveDelay(PostEventDuration, now - sv[s][k].det)
       IN sv' = [sv EXCEPT ![s][k] =
                    [@ EXCEPT !.invoked = now, !.delay = delay,
                              !.offered = IF delay <= 0 THEN now ELSE 0,
                              !.pc = IF delay <= 0 THEN "send" ELSE "sleep"]]
    /\ UNCHANGED <<buf, appended, released, cpc, playback, pb, stpc, shown,
                   lastSave, lastSel, afterStop, stopRet>>
    /\ UNCHANGED detectVars
    /\ UNCHANGED startVars

\* VideoProfile.Save up to time.Sleep(delay), which returns at once for a
\* delay of zero or less: then the call is at v.save <- struct{}{}.
SaverStart(s, k) ==
    /\ sv[s][k].pc = "spawned"
    /\ LET delay == SaveDelay(PostEventDuration, now - sv[s][k].det)
       IN sv' = [sv EXCEPT ![s][k] =
                    [@ EXCEPT !.invoked = now, !.delay = delay,
                              !.offered = IF delay <= 0 THEN now ELSE 0,
                              !.pc = IF delay <= 0 THEN "send" ELSE "sleep"]]
    /\ UNCHANGED <<buf, appended, released, cpc, playback, pb, stpc, shown,
                   lastSave, lastSel, afterStop, stopRet>>
    /\ UNCHANGED detectVars
    /\ UNCHANGED startVars

\* time.Sleep(delay) returns, no sooner than after delay.
SaverWake(s, k) ==
    /\ sv[s][k].pc = "sleep"
    /\ now >= sv[s][k].invoked + sv[s][k].delay
    /\ sv' = [sv EXCEPT ![s][k].pc = "send", ![s][k].offered = now]
    /\ UNCHANGED <<buf, appended, released, cpc, playback, pb, stpc, shown,
                   lastSave, lastSel, afterStop, stopRet>>
    /\ UNCHANGED detectVars
    /\ UNCHANGED startVars

NextDetect ==
    \/ AdvanceClock
    \/ \E r \in Readings : DetTick(r)
    \/ Handoff
    \/ \E s \in Streams : \E k \in SaverIds : SaverStart(s, k)
    \/ \E s \in Streams : \E k \in SaverIds : SaverWake(s, k)

SpecDetect == Init /\ [][NextDetect]_vars

\* ---------------------------------------------- detection to save signal
\* A bite louder than the threshold.
Loud == [kind |-> "num", db |-> Threshold + 1]

\* The path of a Detection to the two capture loops: the detector on loud
\* ticks, the consumer, the VideoProfile.Save tasks, and the save branch of
\* each capture loop (on buffers that hold no frame yet).
NextFanOut ==
    \/ AdvanceClock
    \/ DetTick(Loud)
    \/ Handoff
    \/ \E s \in Streams : \E k \in SaverIds : SaverStart(s, k)
    \/ \E s \in Streams : \E k \in SaverIds : SaverWake(s, k)
    \/ \E s \in Streams : \E i \in SaverIds : CapTakeSave(s, i)
    \/ \E s \in Streams : \E fault \in WriterFaults : CapSave(s, fault)

SpecFanOut == Init /\ [][NextFanOut]_vars

\* ---------------------------------------------------------- orchestrator
\* The steps of Audio.StartDetection that can fail, in order.
AudioInitSteps == <<"Initialize", "OpenDefaultStream", "Start">>

AudioFailed(i) == apc[i] \in {"errInitialize", "errOpenDefaultStream",
                              "errStart"}

\* start(): NewAudio, which returns no error, and `go audio.StartDetection`,
\* whose result nothing receives.
StartAudio ==
    /\ spc = "NewAudio"
    /\ apc' = [apc EXCEPT ![inst] = "Initialize"]
    /\ spc' = "front"
    /\ UNCHANGED <<inst, cam>>
    /\ UNCHANGED <<streamVars, detectVars>>

\* NewVideoProfiles: NewVideoProfile opens the camera of stream s; on an
\* error NewVideoProfiles returns it and start() prints it and returns.
NewVideoProfile(s, ok) ==
    /\ spc = s
    /\ cam' = [cam EXCEPT ![inst][s] = IF ok THEN "open" ELSE "failed"]
    /\ spc' = IF ~ok THEN "returned"
              ELSE IF s = "front" THEN "back" ELSE "consumer"
    /\ UNCHANGED <<inst, apc>>
    /\ UNCHANGED <<streamVars, detectVars>>

\* start(): the consumer goroutine, the windows, `go video.Start`, and into
\* the render loop, which has no exit.
EnterRenderLoop ==
    /\ spc = "consumer"
    /\ spc' = "render"
    /\ UNCHANGED <<inst, apc, cam>>
    /\ UNCHANGED <<streamVars, detectVars>>

\* main: start() has returned and the loop calls it again.
MainLoop ==
    /\ spc = "returned"
    /\ inst < MaxInstances
    /\ inst' = inst + 1
    /\ spc' = "NewAudio"
    /\ UNCHANGED <<apc, cam>>
    /\ UNCHANGED <<streamVars, detectVars>>

\* Audio.StartDetection of call i: portaudio.Initialize, OpenDefaultStream,
\* stream.Start in turn; on an error the goroutine returns it; after the
\* last the tick loop runs.
AudioInitStep(i, k, ok) ==
    /\ apc[i] = AudioInitSteps[k]
    /\ apc' = [apc EXCEPT ![i] =
                  IF ~ok THEN "err" \o AudioInitSteps[k]
                  ELSE IF k < Len(AudioInitSteps) THEN AudioInitSteps[k + 1]
                  ELSE "ticking"]
    /\ UNCHANGED <<inst, spc, cam>>
    /\ UNCHANGED <<streamVars, detectVars>>

NextStart ==
    \/ StartAudio
    \/ \E s \in Streams : \E ok \in BOOLEAN : NewVideoProfile(s, ok)
    \/ EnterRenderLoop
    \/ MainLoop
    \/ \E i \in Instances : \E k \in 1..Len(AudioInitSteps) :
          \E ok \in BOOLEAN : AudioInitStep(i, k, ok)

SpecStart == Init /\ [][NextStart]_vars

\* ================================================================ claims
\* The last n frames appended when `a` frames have been appended, oldest
\* first (frame ids count the Append calls).
LastAppended(a, n) == [i \in 1..n |-> a - n + i]

IsPrefix(x, y) == Len(x) <= Len(y) /\ SubSeq(y, 1, Len(x)) = x

SaveRan(s) == lastSave[s].result # "none"

\* C1 (as stated): the buffer never holds more than Capacity frames; once
\* Capacity frames have been appended Full() is true, and every Save then
\* succeeds, writing exactly the last Capacity frames appended, in order.
C1_SaveAlwaysSucceeds ==
    \A s \in Streams :
        /\ buf[s].idx <= Capacity
        /\ Len(buf[s].frames) = Capacity
        /\ appended[s] >= Capacity => Full(buf[s])
        /\ (SaveRan(s) /\ lastSave[s].at >= Capacity) =>
              /\ lastSave[s].result = "ok"
              /\ lastSave[s].written = LastAppended(lastSave[s].at, Capacity)

\* C1 (amended): the buffer never holds more than Capacity frames, and they
\* are the last ones appended, in order; once Capacity frames have been
\* appended Full() is true and Save never fails as not full; unless the clip
\* writer cannot be created or refuses a frame, Save succeeds, writing
\* exactly the last Capacity frames appended, in order; a Save the writer
\* fails has written only a proper prefix of them.
C1_SaveWritesLastFrames ==
    \A s \in Streams :
        /\ buf[s].idx <= Capacity
        /\ Len(buf[s].frames) = Capacity
        /\ appended[s] >= Capacity => Full(buf[s])
        /\ \A i \in 1..buf[s].idx :
              buf[s].frames[i] = appended[s] - buf[s].idx + i
        /\ (SaveRan(s) /\ lastSave[s].at >= Capacity) =>
              /\ lastSave[s].result # "notfull"
              /\ lastSave[s].fault = 0 =>
                    /\ lastSave[s].result = "ok"
                    /\ lastSave[s].written =
                          LastAppended(lastSave[s].at, Capacity)
              /\ lastSave[s].fault # 0 =>
                    /\ lastSave[s].result \in {"createfail", "writefail"}
                    /\ Len(lastSave[s].written) < Capacity
                    /\ IsPrefix(lastSave[s].written,
                                LastAppended(lastSave[s].at, Capacity))

\* A Save succeeded after the buffer had wrapped.
C1_Witness ==
    \E s \in Streams :
        /\ lastSave[s].result = "ok"
        /\ lastSave[s].at > Capacity
        /\ Len(lastSave[s].written) = Capacity

\* C2: a Save on a buffer with fewer than Capacity appends returns the
\* not-full error, opens no writer, writes no frame, and no playback is
\* started for it.
C2_NotFullWritesNothing ==
    \A s \in Streams :
        (SaveRan(s) /\ lastSave[s].at < Capacity) =>
            /\ lastSave[s].result = "notfull"
            /\ ~lastSave[s].opened
            /\ lastSave[s].written = <<>>
            /\ lastSave[s].started = 0
            /\ \A p \in PlaybackIds : pb[s][p].pc = "none"
            /\ playback[s] = 0

\* A Save ran on a buffer holding some frames, but not Capacity.
C2_Witness ==
    \E s \in Streams :
        /\ lastSave[s].result = "notfull"
        /\ lastSave[s].at >= 1
        /\ lastSave[s].at < Capacity

\* C4: at most one VideoPlayback task of a stream runs at a time, it is the
\* one the capture loop holds, and every playback created before it has
\* returned (so it was stopped before the new one delivers a frame).
C4_OnePlaybackPerStream ==
    \A s \in Streams :
        /\ Cardinality({p \in PlaybackIds : Running(s, p)}) <= 1
        /\ \A p \in PlaybackIds : Running(s, p) => p = playback[s]
        /\ \A p, q \in PlaybackIds :
              (p < q /\ pb[s][q].pc # "none") => pb[s][p].pc = "done"

\* A second playback has delivered a frame, the first having been stopped.
C4_Witness ==
    \E s \in Streams :
        /\ pb[s][1].exit = "stopped"
        /\ pb[s][2].last >= 1

\* C5: from the moment playback.Stop() is called until the playback
\* returns, it delivers at most one frame; a playback whose Stop() has
\* returned has terminated and delivers nothing.
C5_AtMostOneFrameAfterStop ==
    \A s \in Streams :
        /\ afterStop[s] <= 1
        /\ \A p \in stopRet[s] : pb[s][p].pc = "done"

\* Stop() has returned after the playback delivered its in-flight frame.
C5_Witness ==
    \E s \in Streams :
        /\ afterStop[s] = 1
        /\ playback[s] \in stopRet[s]

\* The capture loop waits in playback.Stop() for a playback that returned
\* when it was stopped before: nothing will ever receive on its channel.
WaitsOnStoppedPlayback(s) ==
    /\ cpc[s] = "stopping"
    /\ pb[s][playback[s]].exit = "stopped"

\* C6: after a Save that failed in the capture loop, the loop goes on: it is
\* never left waiting forever, unable to append or to take a signal.
C6_FailedSaveKeepsCapturing ==
    \A s \in Streams :
        lastSave[s].result \in {"notfull", "createfail", "writefail"} =>
            ~WaitsOnStoppedPlayback(s)

\* C7 (as stated): with a stop and a save both pending, the select takes
\* the stop.
C7_StopTakenFirst ==
    \A s \in Streams :
        (lastSel[s].stop /\ lastSel[s].save) => lastSel[s].took = "stop"

\* C7 (amended): a pending signal is taken before a frame is pulled; with a
\* stop and a save both pending either one may be taken; when the stop is
\* taken the stream is Stopped and no save is processed after it.
C7_SignalsBeforeFrames ==
    \A s \in Streams :
        /\ (lastSel[s].stop \/ lastSel[s].save) =>
              lastSel[s].took \in {"stop", "save"}
        /\ lastSel[s].took = "stop" =>
              /\ lastSel[s].stop
              /\ cpc[s] = "stopped"
              /\ Served(s) = lastSel[s].served
        /\ lastSel[s].took = "save" => lastSel[s].save
        /\ cpc[s] = "stopped" => lastSel[s].took = "stop"

\* With a stop and a save both pending, the select took the save.
C7_Witness ==
    \E s \in Streams :
        /\ lastSel[s].stop
        /\ lastSel[s].save
        /\ lastSel[s].took = "save"

\* The playback is at its first open of the clip.
FirstOpen(r) == r.pc = "open" /\ r.pos = 0

\* C9 (as stated): after the last frame of the clip has been delivered the
\* next frame delivered is the first; a playback that has opened its clip
\* returns only when it is cancelled.
C9_LoopsUntilCancelled ==
    [][\A s \in Streams : \A p \in PlaybackIds :
          /\ (pb[s][p].pc = "send" /\ pb'[s][p].pc = "sleep"
                /\ pb[s][p].last = Len(pb[s][p].clip)) => pb[s][p].pos = 1
          /\ (pb[s][p].pc # "done" /\ pb'[s][p].pc = "done"
                /\ ~FirstOpen(pb[s][p])) => pb'[s][p].exit = "stopped"]_vars

\* C9 (amended): at the end of the clip the playback does not return but
\* reopens the clip; if the clip opens, the frames are read again from the
\* first, in order, and each is handed to the window unless it decodes
\* empty; the playback returns only when it is cancelled or the clip cannot
\* be opened.
C9_ReopensAtEndOfClip ==
    [][\A s \in Streams : \A p \in PlaybackIds :
          LET a == pb[s][p]
              b == pb'[s][p]
          IN /\ (a.pc = "read" /\ a.pos = Len(a.clip) /\ b # a) =>
                    b = [a EXCEPT !.pc = "open"]
             /\ (a.pc = "open" /\ b # a) =>
                    \/ b = [a EXCEPT !.pc = "read", !.pos = 0]
                    \/ b.pc = "done" /\ b.exit = "openfail"
             /\ (a.pc = "read" /\ a.pos < Len(a.clip) /\ b # a) =>
                    /\ b.pos = a.pos + 1
                    /\ b.pc \in {"read", "check"}
             /\ (a.pc = "send" /\ b.pc = "sleep") =>
                    /\ shown'[s] = a.clip[a.pos]
                    /\ b.last = a.pos
             /\ (a.pc # "done" /\ b.pc = "done") =>
                    b.exit \in {"stopped", "openfail"}]_vars

\* Having delivered the last frame of a clip of two or more, the playback
\* has reopened the clip and read its first frame.
C9_Witness ==
    \E s \in Streams : \E p \in PlaybackIds :
        /\ pb[s][p].pc = "check"
        /\ Len(pb[s][p].clip) >= 2
        /\ pb[s][p].last = Len(pb[s][p].clip)
        /\ pb[s][p].pos = 1

\* The ticks in the window came at consecutive clock readings, all above
\* the threshold.
BurstOfThree ==
    /\ Len(ticks) = 3
    /\ ticks[2].t = ticks[1].t + 1
    /\ ticks[3].t = ticks[2].t + 1
    /\ \A i \in 1..3 : ticks[i].level.kind = "num"
                       /\ ticks[i].level.db > Threshold

\* C3: no two Detections carry timestamps closer than the minimum
\* re-trigger interval; an above-threshold tick with no Detection before it
\* emits; of three consecutive ticks above the threshold at most one emits,
\* and when the first emits the other two do not.
C3_NoRetriggerWithinInterval ==
    /\ \A i, j \in 1..Len(emitted) :
          i < j => emitted[j].DetectionTime - emitted[i].DetectionTime
                      >= MinDetectionInterval
    /\ \A i \in 1..Len(ticks) :
          (ticks[i].level.kind = "num" /\ ticks[i].level.db > Threshold
             /\ ticks[i].prior = 0) => ticks[i].emit
    /\ BurstOfThree =>
          /\ Cardinality({i \in 1..3 : ticks[i].emit}) <= 1
          /\ ticks[1].emit => ~ticks[2].emit /\ ~ticks[3].emit

\* The signal stayed above the threshold: after a first Detection two
\* consecutive ticks emitted nothing and the third emitted the second.
C3_Witness ==
    /\ BurstOfThree
    /\ Len(emitted) = 2
    /\ ~ticks[1].emit
    /\ ~ticks[2].emit
    /\ ticks[3].emit

\* C8: a VideoProfile.Save called before DetectionTime + the post-event
\* duration sleeps for the remainder and offers the save signal no earlier
\* than that instant; called at or after it, it offers the signal at once.
C8_SaveAfterPostEventDelay ==
    \A s \in Streams : \A k \in SaverIds :
        LET r == sv[s][k]
            due == r.det + PostEventDuration
        IN /\ r.pc \in {"sleep", "send"} =>
                 r.delay = PostEventDuration - (r.invoked - r.det)
           /\ r.pc = "sleep" => r.invoked < due
           /\ r.pc = "send" =>
                 /\ r.invoked < due => r.offered >= due
                 /\ r.invoked >= due => r.offered = r.invoked

\* One Save, called one tick after the Detection, slept and then offered
\* its signal; another, called late, offered its signal at once.
C8_Witness ==
    \E s, u \in Streams : \E k \in SaverIds :
        /\ sv[s][k].pc = "send"
        /\ sv[s][k].invoked = sv[s][k].det + 1
        /\ sv[s][k].delay = PostEventDuration - 1
        /\ sv[s][k].offered >= sv[s][k].det + PostEventDuration
        /\ sv[u][k].pc = "send"
        /\ sv[u][k].delay <= 0
        /\ sv[u][k].offered = sv[u][k].invoked

\* C10: a Detection is emitted only on a tick whose loudness is above the
\* threshold; a tick whose loudness equals the threshold emits none.
C10_StrictlyAboveThreshold ==
    /\ \A i \in 1..Len(emitted) : emitted[i].Decibel > Threshold
    /\ \A i \in 1..Len(ticks) :
          /\ ticks[i].emit =>
                ticks[i].level.kind = "num" /\ ticks[i].level.db > Threshold
          /\ ticks[i].level.db = Threshold => ~ticks[i].emit

\* A tick measured exactly the threshold with the re-trigger interval
\* elapsed, and emitted nothing.
C10_Witness ==
    \E i \in 1..Len(ticks) :
        /\ ticks[i].level = [kind |-> "num", db |-> Threshold]
        /\ ticks[i].gate
        /\ ~ticks[i].emit

\* C11: VideoProfile.Stop() returns in the step in which the capture loop
\* receives the stop signal, never before; the loop is then Stopped, and
\* from then on the stream appends no frame, releases none, runs no Save
\* and receives no save signal.
C11_StopIsRendezvousAndTerminal ==
    [][\A s \in Streams :
          /\ (stpc[s] # "returned" /\ stpc'[s] = "returned") =>
                /\ stpc[s] = "send"
                /\ cpc[s] = "select"
                /\ cpc'[s] = "stopped"
                /\ lastSel'[s].took = "stop"
          /\ stpc[s] = "returned" =>
                /\ cpc[s] = "stopped"
                /\ cpc'[s] = "stopped"
                /\ buf'[s] = buf[s]
                /\ appended'[s] = appended[s]
                /\ released'[s] = released[s]
                /\ lastSave'[s] = lastSave[s]
                /\ Served(s)' = Served(s)]_vars

\* Stop() has returned while a save signal is still offered and the camera
\* has frames left: the signal stays unreceived.
C11_Witness ==
    \E s \in Streams :
        /\ stpc[s] = "returned"
        /\ SavePending(s)
        /\ appended[s] < MaxAppends
        /\ Served(s) >= 1

\* C12: the Detections received are always the Detections emitted, in
\* order, less at most the one being sent; while a Detection is being sent
\* the detector handles no tick and emits nothing, and the only way on is
\* the consumer receiving exactly that Detection, once.
C12_NoDetectionDropped ==
    [][/\ IsPrefix(received', emitted')
       /\ Len(emitted') - Len(received') = IF dpc' = "send" THEN 1 ELSE 0
       /\ dpc' = "send" => pending' = emitted'[Len(emitted')]
       /\ dpc = "send" =>
             /\ ticks' = ticks
             /\ emitted' = emitted
             /\ lastDetection' = lastDetection
             /\ dpc' = "wait" => received' = received \o <<pending>>
       /\ received' # received =>
             /\ dpc = "send"
             /\ received' = received \o <<emitted[Len(emitted)]>>]_vars

\* A second Detection is being sent after the first was received, and a
\* later tick is already due while the detector waits.
C12_Witness ==
    /\ dpc = "send"
    /\ Len(received) = 1
    /\ Len(emitted) = 2
    /\ tickReady
    /\ now > pending.DetectionTime

\* C13: once the audio initialization of the current call of start() has
\* failed, or one of its cameras has failed to open, that call does not
\* enter the render loop: it returns, and main calls start() again.
C13_InitFailureAbortsInstance ==
    [][/\ (AudioFailed(inst) /\ spc # "render") => spc' # "render"
       /\ (\E s \in Streams : cam'[inst'][s] = "failed") =>
             spc' = "returned"]_vars

\* The capture loop waits in playback.Stop() for a playback that returned
\* because its clip did not open.
WaitsOnUnopenedPlayback(s) ==
    /\ cpc[s] = "stopping"
    /\ pb[s][playback[s]].exit = "openfail"

\* C14: a playback whose clip could not be opened has returned without
\* delivering a frame, and the capture loop is never left waiting on it: it
\* goes on appending frames and taking save and stop signals.
C14_OpenFailureKeepsCapturing ==
    \A s \in Streams :
        /\ \A p \in PlaybackIds :
              pb[s][p].exit = "openfail" => pb[s][p].pc = "done"
        /\ ~WaitsOnUnopenedPlayback(s)

\* The capture loop is at a point where it can go on by itself.
CaptureCanStep(s) ==
    ENABLED (\/ CapTakeStop(s)
             \/ \E i \in SaverIds : CapTakeSave(s, i)
             \/ \E fault \in WriterFaults : CapSave(s, fault)
             \/ CapPullFrame(s, FALSE))

\* C15 (as stated): the capture loop never waits on another task: it is
\* never in playback.Stop() with the playback somewhere else than at the
\* select that takes the stop.
C15_CaptureNeverBlocks ==
    \A s \in Streams :
        ~(cpc[s] = "stopping" /\ pb[s][playback[s]].pc # "check")

\* C15 (amended): the capture loop waits on another task in one place
\* only, the playback.Stop() of a save branch that found a previous
\* playback; there it appends no frame and takes no signal until that
\* playback takes the stop at its select; everywhere else in the loop it
\* can go on by itself.
C15_BlocksOnlyInPlaybackStop ==
    /\ [](\A s \in Streams :
             cpc[s] \in {"select", "save"} => CaptureCanStep(s))
    /\ [][\A s \in Streams :
            /\ (cpc[s] # "stopping" /\ cpc'[s] = "stopping") =>
                  /\ cpc[s] = "select"
                  /\ playback[s] # 0
                  /\ Served(s)' = Served(s) + 1
            /\ cpc[s] = "stopping" =>
                  /\ buf'[s] = buf[s]
                  /\ appended'[s] = appended[s]
                  /\ lastSave'[s] = lastSave[s]
                  /\ lastSel'[s] = lastSel[s]
                  /\ Served(s)' = Served(s)
                  /\ stpc'[s] # "returned"
                  /\ cpc'[s] # "stopping" =>
                        /\ cpc'[s] = "save"
                        /\ pb[s][playback[s]].pc = "check"
                        /\ pb'[s][playback[s]] = Returned("stopped")]_vars

\* The loop waits in playback.Stop() while the playback waits for the
\* window to take a frame, with the camera ready to deliver more frames.
C15_Witness ==
    \E s \in Streams :
        /\ cpc[s] = "stopping"
        /\ pb[s][playback[s]].pc = "send"
        /\ appended[s] < MaxAppends

\* C16: once VideoProfile.Stop() has returned, no VideoPlayback task of the
\* stream is running: none is opening, reading, offering a frame to the
\* window or sleeping between frames.
C16_StopCancelsPlayback ==
    \A s \in Streams :
        stpc[s] = "returned" => \A p \in PlaybackIds : ~Running(s, p)

\* C17: a playback is created only in the step in which a Save returned
\* success, after that Save wrote all Capacity frames and closed its
\* writer, and at creation it has not opened the clip; the clip any running
\* playback opens or reads is such a complete file; a Save that failed
\* starts no playback.
C17_SaveCompletesBeforePlayback ==
    /\ [](\A s \in Streams :
             /\ \A p \in PlaybackIds :
                   Running(s, p) => Len(pb[s][p].clip) = Capacity
             /\ lastSave[s].started # 0 <=> lastSave[s].result = "ok"
             /\ Created(s) >= 1 => lastSave[s].result # "none")
    /\ [][\A s \in Streams : \A p \in PlaybackIds :
            (pb[s][p].pc = "none" /\ pb'[s][p].pc # "none") =>
                /\ cpc[s] = "save"
                /\ lastSave'[s].result = "ok"
                /\ lastSave'[s].started = p
                /\ lastSave'[s].written = buf[s].frames
                /\ Len(lastSave'[s].written) = Capacity
                /\ pb'[s][p] = NewVideoPlayback(lastSave'[s].written)]_vars

\* The playback started by the last Save has read its clip to the end,
\* after an earlier playback of the stream.
C17_Witness ==
    \E s \in Streams :
        /\ lastSave[s].started = 2
        /\ pb[s][2].pc = "check"
        /\ pb[s][2].pos = Capacity

\* C18: a Save of a stream's buffer runs only as the step of the capture
\* loop that follows taking a save signal, so one at a time; from the
\* taking of the signal to the end of the Save no Append changes the buffer
\* and no frame is released; the frames the Save writes are, in order, the
\* frames the buffer held when the Save began (all of them on success, the
\* first ones when the writer fails), and the Save leaves them in place.
C18_SaveWritesSnapshot ==
    [][\A s \in Streams :
          /\ cpc[s] = "save" =>
                /\ buf'[s] = buf[s]
                /\ appended'[s] = appended[s]
                /\ released'[s] = released[s]
          /\ lastSave'[s] # lastSave[s] =>
                /\ cpc[s] = "save"
                /\ cpc'[s] = "select"
                /\ lastSave'[s].at = appended[s]
                /\ IsPrefix(lastSave'[s].written, buf[s].frames)
                /\ lastSave'[s].result = "ok" =>
                      lastSave'[s].written = buf'[s].frames]_vars

\* A Save wrote the frames of a full buffer, and the buffer has since
\* moved on by a frame.
C18_Witness ==
    \E s \in Streams :
        /\ lastSave[s].result = "ok"
        /\ lastSave[s].at >= Capacity
        /\ appended[s] > lastSave[s].at
        /\ lastSave[s].written # buf[s].frames

\* C19: every Detection the consumer has received has a VideoProfile.Save
\* task of its own for each stream, carrying its DetectionTime, and no other
\* such task exists; whatever the other stream's tasks and capture loop are
\* doing, a task that was started can compute its delay, a task whose delay
\* is over can offer its signal, a capture loop at its select can take a
\* signal offered to it, and the consumer can receive the Detection being
\* sent.
C19_StreamsIndependent ==
    /\ \A s \in Streams : \A k \in SaverIds :
          /\ k <= Len(received) =>
                /\ sv[s][k].pc # "idle"
                /\ sv[s][k].det = received[k].DetectionTime
          /\ k > Len(received) => sv[s][k].pc = "idle"
          /\ sv[s][k].pc = "spawned" => ENABLED SaverStart(s, k)
          /\ (sv[s][k].pc = "sleep"
                /\ now >= sv[s][k].invoked + sv[s][k].delay) =>
                ENABLED SaverWake(s, k)
          /\ (sv[s][k].pc = "send" /\ cpc[s] = "select") =>
                ENABLED CapTakeSave(s, k)
    /\ dpc = "send" => ENABLED Handoff

\* The front stream has not taken its first save signal; meanwhile the
\* back stream has taken its own and run its Save, and the consumer has
\* received the second Detection, whose back task is asleep.
C19_Witness ==
    /\ Len(received) = 2
    /\ sv["front"][1].pc = "send"
    /\ cpc["front"] = "select"
    /\ sv["back"][1].pc = "done"
    /\ lastSave["back"].result # "none"
    /\ sv["back"][2].pc = "sleep"

\* The frames a buffer retains.
Retained(b) == {b.frames[i] : i \in 1..b.idx}

\* C20: the frames released are exactly the frames appended and no longer
\* retained, so no retained frame has been released; a release happens
\* only in an Append to a full buffer, and every such Append releases one
\* frame, the oldest retained, which had not been released before and is
\* not retained after the step, the new frame taking the last place; no
\* frame a Save writes has been released when it is written.
C20_EvictedReleasedOnce ==
    /\ [](\A s \in Streams :
             /\ released[s] \cap Retained(buf[s]) = {}
             /\ released[s] \cup Retained(buf[s]) = 1..appended[s])
    /\ [][\A s \in Streams :
            /\ released'[s] # released[s] =>
                  /\ Full(buf[s])
                  /\ appended'[s] = appended[s] + 1
                  /\ buf[s].frames[1] \notin released[s]
                  /\ released'[s] = released[s] \cup {buf[s].frames[1]}
                  /\ buf[s].frames[1] \notin Retained(buf'[s])
                  /\ buf'[s].frames[Capacity] = appended'[s]
            /\ (Full(buf[s]) /\ appended'[s] # appended[s]) =>
                  released'[s] # released[s]
            /\ lastSave'[s] # lastSave[s] =>
                  \A i \in 1..Len(lastSave'[s].written) :
                      lastSave'[s].written[i] \notin released'[s]]_vars

\* The buffer has wrapped, releasing the frame it dropped, and a Save has
\* written the frames retained after that.
C20_Witness ==
    \E s \in Streams :
        /\ released[s] # {}
        /\ lastSave[s].result = "ok"
        /\ lastSave[s].at = appended[s]
        /\ lastSave[s].at > Capacity

\* C21 (as stated): every frame a playback hands to the window is the one
\* that follows, in the clip, the frame it handed over before (the first
\* frame after the last, and at the start): none is skipped.
C21_NoFrameSkipped ==
    [][\A s \in Streams : \A p \in PlaybackIds :
          (pb[s][p].pc = "send" /\ pb'[s][p].pc = "sleep") =>
              pb[s][p].pos = IF pb[s][p].last = Len(pb[s][p].clip) THEN 1
                             ELSE pb[s][p].last + 1]_vars

\* C21 (amended): with no playback waiting at the hand-off nothing changes
\* what the window shows; a change of it is the taking of the frame of one
\* waiting playback. A playback reads its clip one frame at a time; a
\* frame read is either offered or, decoded empty, read over; a playback
\* that offers a frame stays at that frame until the window has taken it,
\* then sleeps and reads the next one.
C21_HandOffIsRendezvous ==
    [][\A s \in Streams :
          /\ (\A p \in PlaybackIds : pb[s][p].pc # "send") =>
                shown'[s] = shown[s]
          /\ shown'[s] # shown[s] =>
                \E p \in PlaybackIds :
                    /\ pb[s][p].pc = "send"
                    /\ pb'[s][p].pc = "sleep"
                    /\ shown'[s] = pb[s][p].clip[pb[s][p].pos]
          /\ \A p \in PlaybackIds :
                LET a == pb[s][p]
                    b == pb'[s][p]
                IN /\ (a.pc = "read" /\ b # a /\ a.pos < Len(a.clip)) =>
                         /\ b.pos = a.pos + 1
                         /\ b.pc \in {"check", "read"}
                         /\ b.last = a.last
                   /\ (a.pc = "check" /\ b # a) =>
                         \/ b = [a EXCEPT !.pc = "send"]
                         \/ b = Returned("stopped")
                   /\ (a.pc = "send" /\ b # a) =>
                         /\ b = [a EXCEPT !.pc = "sleep", !.last = a.pos]
                         /\ shown'[s] = a.clip[a.pos]
                   /\ (a.pc = "sleep" /\ b # a) =>
                         b = [a EXCEPT !.pc = "read"]]_vars

\* A playback whose first frame the window shows waits for the window to
\* take its second.
C21_Witness ==
    \E s \in Streams : \E p \in PlaybackIds :
        /\ pb[s][p].pc = "send"
        /\ pb[s][p].last = 1
        /\ pb[s][p].pos = 2
        /\ shown[s] = pb[s][p].clip[1]

\* The capture loop waits in playback.Stop() for a playback that is running
\* and has handed a frame of its clip to the window.
CancellingRunningPlayback(s) ==
    /\ cpc[s] = "stopping"
    /\ Running(s, playback[s])
    /\ pb[s][playback[s]].last >= 1

\* C22: a running playback that is being cancelled goes on running until
\* it takes the stop, at which playback.Stop() returns and the capture
\* loop goes on to the Save: it never ends in another way, leaving the
\* loop waiting.
C22_CancellationCompletes ==
    [][\A s \in Streams :
          CancellingRunningPlayback(s) =>
              \/ cpc'[s] = "stopping" /\ Running(s, playback[s])'
              \/ cpc'[s] = "save" /\ playback[s] \in stopRet'[s]]_vars

\* C23: the step in which the capture loop runs frameBuffer.Save, whatever
\* its result, leaves the buffer's frames and fill-count as they were; in
\* every step the fill-count does not decrease, and a buffer that is Full
\* is Full after the step.
C23_SaveLeavesBufferUnchanged ==
    [][\A s \in Streams :
          /\ (cpc[s] = "save" /\ cpc'[s] # "save") =>
                /\ buf'[s].frames = buf[s].frames
                /\ buf'[s].idx = buf[s].idx
                /\ lastSave'[s].at = appended[s]
          /\ buf'[s].idx >= buf[s].idx
          /\ Full(buf[s]) => Full(buf'[s])]_vars

\* After a Save that succeeded and a later one that the writer failed, a
\* frame has been appended and the buffer is Full.
C23_Witness ==
    \E s \in Streams :
        /\ Created(s) >= 1
        /\ lastSave[s].result \in {"createfail", "writefail"}
        /\ appended[s] > lastSave[s].at
        /\ Full(buf[s])

\* The Audio.StartDetection goroutine of call i of start() has been started
\* and has not returned.
DetectorRunning(i) ==
    apc[i] \in {"Initialize", "OpenDefaultStream", "Start", "ticking"}

\* C24: at most one Audio.StartDetection task is running, and none that
\* belongs to a call of start() that has returned.
C24_OneDetectorTask ==
    /\ Cardinality({i \in Instances : DetectorRunning(i)}) <= 1
    /\ \A i \in Instances : i < inst => ~DetectorRunning(i)

====
